---- MODULE Spec2Model ----
(***************************************************************************)
(* Model of the WeChat shop client's token lifecycle                       *)
(* (src/src/api/wechat_shop_api.py, WeChatShopAPIClient) and of the batch  *)
(* uploader built on it (src/src/core/product_uploader.py,                  *)
(* ProductUploader).                                                       *)
(*                                                                         *)
(* SpecToken : NumCallers threads call get_access_token on one client;     *)
(*             every attribute read and write of _refresh_access_token is  *)
(*             its own step, the clock advances between steps.             *)
(* SpecBatch : one call of upload_products or upload_products_async over a *)
(*             list of products, one step per add_product call.            *)
(* SpecHistory : client operations called one after the other on one       *)
(*             client, followed through self.operation_history.            *)
(* SpecBatchFair : SpecBatch under the fairness of its scheduling.         *)
(* SpecUpload : upload_products over one product, max_retries up to the    *)
(*             default, followed through the backoff.                      *)
(* SpecSession : SpecUpload, then save_upload_results and                  *)
(*             generate_upload_report on the returned results.             *)
(* SpecRequest : calls of _api_request on one client.                      *)
(* SpecReport : generate_upload_report and save_upload_results on given    *)
(*             results.                                                    *)
(***************************************************************************)
EXTENDS Integers, Sequences, FiniteSets, TLC

(***************************************************************************)
(* Bounds of the model.                                                    *)
(***************************************************************************)
NumCallers == 2
MaxAuth == 2
TickLen == 1200
MaxNow == 3600
MaxProducts == 3
MaxTasks == 2
MaxRetriesCfg == 1
MaxBatchSize == 2
MaxConcurrencyCfg == 2
MaxRecords == 1004
MaxReports == 2
MaxTotal == 20
MaxReportDetails == 2
MaxRequests == 3
MaxBackoffRetries == 3

(***************************************************************************)
(* Program constants.                                                      *)
(***************************************************************************)
RefreshMargin == 1200
DefaultExpiresIn == 7200
EmptyToken == 0
NoneValue == -1
BackoffStep == 2
HistoryCap == 1000
UnknownCode == -2

Callers == 1..NumCallers

\* Token values: EmptyToken is "", n in 1..MaxAuth is the token handed out by
\* the n-th auth request, PreToken is a token preloaded from the configuration.
PreToken == MaxAuth + 1
NoToken == -1

\* expires_in of an auth response: a number, Absent (key missing) or
\* BadExpires (a value that is not a number).
Absent == -1
BadExpires == -2
ExpiresInValues == {RefreshMargin, 2 * RefreshMargin, Absent, BadExpires}

\* result.get("expires_in", 7200)
ExpiresInOf(e) == IF e = Absent THEN DefaultExpiresIn ELSE e

\* Outcomes of the auth request that do not carry an access_token.
AuthFailKinds == {"no_token", "http_error", "exception"}

VARIABLES
    \* ---- WeChatShopAPIClient ----
    access_token,       \* self.access_token
    token_expire_time,  \* self.token_expire_time
    config_ok,          \* what _check_config() returns for self.api_config
    now,                \* time.time()
    \* ---- callers of get_access_token (SpecToken) ----
    pc,                 \* position of each caller in _refresh_access_token
    loc,                \* locals of each caller
    ret,                \* what the caller's last call returned
    \* ---- observation ----
    authRequests,       \* number of GET /cgi-bin/token issued so far
    expire_src,         \* the auth request whose expiry token_expire_time holds
    trueExpiry,         \* instant of issue + expires_in of the token in access_token
    operation_history,  \* self.operation_history: the records, each named by its
                        \* rank among all records ever appended
    \* ---- ProductUploader: configuration and input (SpecBatch) ----
    products,           \* the list passed to upload_products / upload_products_async
    mode,               \* "seq": upload_products, "async": upload_products_async
    max_retries,        \* self.config['upload']['max_retries']
    batch_size,         \* self.config['upload']['batch_size']
    max_concurrency,    \* self.config['upload']['max_concurrency']
    client_ok,          \* self.api_client is not None
    remote,             \* the remote service during the batch: whether its auth
                        \* endpoint hands out tokens, and the answers its
                        \* add_product endpoint may give
    \* ---- ProductUploader: one batch call ----
    bpc,                \* "running", "returned" or "raised"
    item,               \* per input position: the upload_single_product call
    task_detail,        \* async: what each upload_with_semaphore task returned
    permits,            \* async: value of the semaphore
    results,            \* the results dictionary
    pacing,             \* number of time.sleep(request_interval) executed
    \* ---- ProductUploader: after the batch ----
    stats,              \* self.stats
    reports,            \* what the calls of generate_upload_report returned
    files_written,      \* number of files opened for writing
    request             \* the latest call of _api_request, as its caller saw it

tokenVars == <<access_token, token_expire_time, config_ok, now, pc, loc, ret,
               authRequests, expire_src, trueExpiry, operation_history>>

uploaderVars == <<stats, reports, files_written>>

batchVars == <<products, mode, max_retries, batch_size, max_concurrency, client_ok,
               remote, bpc, item, task_detail, permits, results, pacing,
               uploaderVars, request>>

vars == <<tokenVars, batchVars>>

\* ret[c]: tok is the value returned (NoToken for None), kind the path taken,
\* src the auth request whose expiry was stored at the return, outsideMargin
\* whether now + 1200 < issue + expires_in held for tok at the return,
\* storedLater whether token_expire_time > now held at the return.
NoRet == [tok |-> NoToken, kind |-> "none", src |-> 0,
          outsideMargin |-> FALSE, storedLater |-> FALSE]
NoLoc == [exp |-> Absent, tok |-> EmptyToken]

Returned(kind) ==
    [tok |-> access_token, kind |-> kind, src |-> expire_src,
     outsideMargin |-> now + RefreshMargin < trueExpiry,
     storedLater |-> token_expire_time > now]

\* __init__, lines 70-76: the statistics are zero; no report has been made.
NoStats == [total |-> 0, success |-> 0, failed |-> 0, errors |-> <<>>]
NoReports ==
    /\ stats = NoStats
    /\ reports = <<>>
    /\ files_written = 0

\* No call of _api_request yet.  Of a call: token tells whether line 470 got
\* a token, first and second are the kinds of the answers to the send and to
\* the resend, sends the requests handed to the session, waited the seconds
\* slept at line 537, result the value returned and recorded the number of
\* records the call appended to operation_history.
NoRequest == [calls |-> 0]

\* SpecToken has no uploader: no batch is ever submitted.
NoBatch ==
    /\ products = <<>>
    /\ mode = "none"
    /\ max_retries = 0
    /\ batch_size = 1
    /\ max_concurrency = 1
    /\ client_ok = TRUE
    /\ remote = [auth |-> TRUE, answers |-> {}]
    /\ bpc = "none"
    /\ item = <<>>
    /\ task_detail = <<>>
    /\ permits = 0
    /\ results = [total |-> 0, success |-> 0, failed |-> 0, details |-> <<>>]
    /\ pacing = 0
    /\ NoReports
    /\ request = NoRequest

\* __init__ (lines 361-362): the token comes from the configuration, the
\* expiry is 0.
InitToken ==
    /\ access_token \in {EmptyToken, PreToken}
    /\ token_expire_time = 0
    /\ config_ok \in BOOLEAN
    /\ now = TickLen
    /\ pc = [c \in Callers |-> "idle"]
    /\ loc = [c \in Callers |-> NoLoc]
    /\ ret = [c \in Callers |-> NoRet]
    /\ authRequests = 0
    /\ expire_src = 0
    /\ trueExpiry = 0
    /\ operation_history = <<>>
    /\ NoBatch

\* The clock.
Tick ==
    /\ now + TickLen <= MaxNow
    /\ now' = now + TickLen
    /\ UNCHANGED <<access_token, token_expire_time, config_ok, pc, loc, ret,
                   authRequests, expire_src, trueExpiry>>
    /\ UNCHANGED <<batchVars, operation_history>>

\* line 395: self.access_token and time.time() < self.token_expire_time
CacheValid == access_token # EmptyToken /\ now < token_expire_time

\* get_access_token() -> _refresh_access_token(): the condition of line 395
\* holds, the caller is about to execute line 397.
CallerCheckCached(c) ==
    /\ pc[c] = "idle"
    /\ CacheValid
    /\ pc' = [pc EXCEPT ![c] = "ret_cached"]
    /\ UNCHANGED <<access_token, token_expire_time, config_ok, now, loc, ret,
                   authRequests, expire_src, trueExpiry>>
    /\ UNCHANGED <<batchVars, operation_history>>

\* line 397: return self.access_token
CallerReturnCached(c) ==
    /\ pc[c] = "ret_cached"
    /\ ret' = [ret EXCEPT ![c] = Returned("cached")]
    /\ pc' = [pc EXCEPT ![c] = "returned"]
    /\ UNCHANGED <<access_token, token_expire_time, config_ok, now, loc,
                   authRequests, expire_src, trueExpiry>>
    /\ UNCHANGED <<batchVars, operation_history>>

\* lines 395, 399-401: the cache is not valid and the configuration is
\* incomplete: None is returned, no request is made.
CallerConfigMissing(c) ==
    /\ pc[c] = "idle"
    /\ ~CacheValid
    /\ ~config_ok
    /\ ret' = [ret EXCEPT ![c] = [NoRet EXCEPT !.kind = "no_config"]]
    /\ pc' = [pc EXCEPT ![c] = "returned"]
    /\ UNCHANGED <<access_token, token_expire_time, config_ok, now, loc,
                   authRequests, expire_src, trueExpiry>>
    /\ UNCHANGED <<batchVars, operation_history>>

\* lines 395, 399-416: the cache is not valid, the configuration is complete:
\* self.session.get(url, params=params) is sent and the caller waits for it.
CallerSendAuth(c) ==
    /\ pc[c] = "idle"
    /\ ~CacheValid
    /\ config_ok
    /\ authRequests < MaxAuth
    /\ authRequests' = authRequests + 1
    /\ loc' = [loc EXCEPT ![c].tok = authRequests + 1]
    /\ pc' = [pc EXCEPT ![c] = "await"]
    /\ UNCHANGED <<access_token, token_expire_time, config_ok, now, ret,
                   expire_src, trueExpiry>>
    /\ UNCHANGED <<batchVars, operation_history>>

\* A failure handler that drops the cached token before it returns None.
AuthFailure_DropsToken(c, kind) ==
    /\ ret' = [ret EXCEPT ![c] = [NoRet EXCEPT !.kind = kind]]
    /\ pc' = [pc EXCEPT ![c] = "returned"]
    /\ access_token' = EmptyToken
    /\ UNCHANGED token_expire_time

\* lines 417-418, 426-431: the response carries no access_token, or
\* raise_for_status / the request / json() raised: None is returned.
AuthFailure(c, kind) ==
    /\ ret' = [ret EXCEPT ![c] = [NoRet EXCEPT !.kind = kind]]
    /\ pc' = [pc EXCEPT ![c] = "returned"]
    /\ UNCHANGED <<access_token, token_expire_time>>

CallerAuthFails(c) ==
    /\ pc[c] = "await"
    /\ \E kind \in AuthFailKinds : AuthFailure(c, kind)
    /\ UNCHANGED <<config_ok, now, loc, authRequests, expire_src, trueExpiry>>
    /\ UNCHANGED <<batchVars, operation_history>>

\* line 421: self.access_token = result["access_token"]
CallerWriteToken(c) ==
    /\ pc[c] = "await"
    /\ \E e \in ExpiresInValues :
          /\ loc' = [loc EXCEPT ![c].exp = e]
          /\ trueExpiry' = IF e = BadExpires THEN 0 ELSE now + ExpiresInOf(e)
    /\ access_token' = loc[c].tok
    /\ pc' = [pc EXCEPT ![c] = "write_exp"]
    /\ UNCHANGED <<token_expire_time, config_ok, now, ret, authRequests, expire_src>>
    /\ UNCHANGED <<batchVars, operation_history>>

\* line 423: time.time() + result.get("expires_in", 7200) - 1200
StoredExpiry(t, e) == t + ExpiresInOf(e) - RefreshMargin

\* line 423: self.token_expire_time = ...; an expires_in that is not a number
\* raises TypeError here, after line 421 has run, and lines 429-431 return None.
CallerWriteExpiry(c) ==
    /\ pc[c] = "write_exp"
    /\ IF loc[c].exp = BadExpires
       THEN /\ ret' = [ret EXCEPT ![c] = [NoRet EXCEPT !.kind = "bad_expires"]]
            /\ pc' = [pc EXCEPT ![c] = "returned"]
            /\ UNCHANGED <<token_expire_time, expire_src>>
       ELSE /\ token_expire_time' = StoredExpiry(now, loc[c].exp)
            /\ expire_src' = loc[c].tok
            /\ pc' = [pc EXCEPT ![c] = "ret_fresh"]
            /\ UNCHANGED ret
    /\ UNCHANGED <<access_token, config_ok, now, loc, authRequests, trueExpiry>>
    /\ UNCHANGED <<batchVars, operation_history>>

\* line 425: return self.access_token
CallerReturnFresh(c) ==
    /\ pc[c] = "ret_fresh"
    /\ ret' = [ret EXCEPT ![c] = Returned("fresh")]
    /\ pc' = [pc EXCEPT ![c] = "returned"]
    /\ UNCHANGED <<access_token, token_expire_time, config_ok, now, loc,
                   authRequests, expire_src, trueExpiry>>
    /\ UNCHANGED <<batchVars, operation_history>>

\* The caller takes the result and may call again.
CallerDone(c) ==
    /\ pc[c] = "returned"
    /\ pc' = [pc EXCEPT ![c] = "idle"]
    /\ loc' = [loc EXCEPT ![c] = NoLoc]
    /\ ret' = [ret EXCEPT ![c] = NoRet]
    /\ UNCHANGED <<access_token, token_expire_time, config_ok, now,
                   authRequests, expire_src, trueExpiry>>
    /\ UNCHANGED <<batchVars, operation_history>>

NextToken ==
    \/ Tick
    \/ \E c \in Callers : CallerCheckCached(c)
    \/ \E c \in Callers : CallerReturnCached(c)
    \/ \E c \in Callers : CallerConfigMissing(c)
    \/ \E c \in Callers : CallerSendAuth(c)
    \/ \E c \in Callers : CallerAuthFails(c)
    \/ \E c \in Callers : CallerWriteToken(c)
    \/ \E c \in Callers : CallerWriteExpiry(c)
    \/ \E c \in Callers : CallerReturnFresh(c)
    \/ \E c \in Callers : CallerDone(c)

SpecToken == InitToken /\ [][NextToken]_vars


(***************************************************************************)
(* ProductUploader on top of WeChatShopAPIClient.add_product.              *)
(***************************************************************************)

\* A product is a dictionary; kind tells which keys it has:
\*   "no_title"      no 'title' key
\*   "invalid"       'title' present, rejected by _validate_product_data
\*   "no_api_fields" passes _validate_product_data, lacks a key of
\*                   WECHAT_SHOP_REQUIRED_FIELDS
\*   "full"          passes both checks
\* id stands for the product's title and out_product_id.
ProductKinds == {"no_title", "invalid", "no_api_fields", "full"}

\* product['title'] is defined
HasTitleKey(p) == p.kind # "no_title"

\* _validate_product_data(product)
ValidateProductData(p) == p.kind \in {"no_api_fields", "full"}

\* add_product, lines 639-641: every field of WECHAT_SHOP_REQUIRED_FIELDS but
\* product_id is in product_data
HasApiFields(p) == p.kind = "full"

ProductLists ==
    UNION {{[i \in 1..n |-> [id |-> i, kind |-> f[i]]] : f \in [1..n -> ProductKinds]}
           : n \in 0..MaxProducts}

\* What the remote endpoint does with one POST of add_product: a JSON body
\* with an errcode, an HTTP error status, or a connection error / timeout.
RemoteErrorCodes == {401, 40001}
Json(code) == [kind |-> "json", code |-> code]
HttpError == [kind |-> "http_error", code |-> NoneValue]
NetworkError == [kind |-> "network_error", code |-> NoneValue]
Answers == {Json(c) : c \in {0} \cup RemoteErrorCodes} \cup {HttpError, NetworkError}

\* The add_product endpoints a batch runs against: one for each answer, that
\* gives it to every request, and one whose connection fails at times and
\* that answers errcode 0 otherwise.
AnswerSets == {{a} : a \in Answers \ {NetworkError}} \cup {{NetworkError, Json(0)}}

\* The remote services: the auth endpoint hands out tokens and add_product
\* is one of the endpoints above, or the auth endpoint is down and no
\* add_product request is ever made.
Remotes ==
    {[auth |-> TRUE, answers |-> as] : as \in AnswerSets}
        \cup {[auth |-> FALSE, answers |-> {}]}

\* The dictionaries that add_product returns.
RespMissingField == [success |-> FALSE, error |-> "missing_field"]
RespNoToken == [success |-> FALSE, error |-> "no_token"]
RespSuccess(code) == [success |-> TRUE, data |-> [errcode |-> code]]
RespApiError(code) == [success |-> FALSE, error |-> "api_error", data |-> [errcode |-> code]]
RespRequestException == [success |-> FALSE, error |-> "request_exception"]
\* The dictionaries that upload_single_product makes itself.
RespValidation == [error |-> "validation"]
RespException == [error |-> "exception"]
NoResponse == [error |-> "none"]

\* _api_request, lines 494-557: the result for the answer to the first send
\* and, after a network error, the answer to the one resend.
ApiRequestResult(first, second) ==
    IF first.kind = "json"
    THEN IF first.code = 0 THEN RespSuccess(0) ELSE RespApiError(first.code)
    ELSE IF first.kind = "network_error" /\ second.kind = "json" /\ second.code = 0
         THEN RespSuccess(0)
         ELSE RespRequestException

\* Number of requests _api_request sends for that first answer.
ApiRequestSends(first) == IF first.kind = "network_error" THEN 2 ELSE 1

\* response.get('errcode')
ErrcodeOf(resp) == IF "errcode" \in DOMAIN resp THEN resp.errcode ELSE NoneValue

\* upload_single_product, line 225
NonRetryableCodes == {400, 401, 403}

\* A retry test that lets the counter reach max_retries + 1.
UploadDecision_OneMore(resp, rc, mr) ==
    IF ErrcodeOf(resp) = 0 THEN "success"
    ELSE IF rc <= mr /\ ErrcodeOf(resp) \notin NonRetryableCodes THEN "retry"
    ELSE "fail"

\* upload_single_product, lines 214-234: what follows a response.
UploadDecision(resp, rc, mr) ==
    IF ErrcodeOf(resp) = 0 THEN "success"
    ELSE IF rc < mr /\ ErrcodeOf(resp) \notin NonRetryableCodes THEN "retry"
    ELSE "fail"

\* A backoff that waits the same time before every retry.
WaitTime_Constant(rc) == BackoffStep

\* lines 227 and 242: wait_time = (retry_count + 1) * 2
WaitTime(rc) == (rc + 1) * BackoffStep

\* The call of upload_single_product for one product: its position, its
\* retry_count, and what it has done so far: attempts counts the passes that
\* reached line 211, refreshes the calls of _refresh_access_token, sends the
\* requests handed to session.post, waits the seconds of backoff sleep.
NewItem == [pc |-> "queued", retry_count |-> 0, attempts |-> 0, refreshes |-> 0,
            sends |-> 0, waits |-> 0, success |-> FALSE, response |-> NoResponse]
NoDetail == [index |-> 0]

Positions == 1..Len(products)
Slots == 1..MaxProducts

Min(a, b) == IF a < b THEN a ELSE b

\* A ProductUploader after __init__ and _validate_config, and the list handed
\* to upload_products (mode "seq", up to MaxProducts products) or to
\* upload_products_async (mode "async", up to MaxTasks products).
InitBatch ==
    /\ access_token = EmptyToken
    /\ token_expire_time = 0
    /\ config_ok \in BOOLEAN
    /\ now = TickLen
    /\ pc = [c \in Callers |-> "idle"]
    /\ loc = [c \in Callers |-> NoLoc]
    /\ ret = [c \in Callers |-> NoRet]
    /\ authRequests = 0
    /\ expire_src = 0
    /\ trueExpiry = 0
    /\ operation_history = <<>>
    /\ remote \in Remotes
    /\ ~config_ok => remote.auth
    /\ client_ok \in BOOLEAN
    /\ ~client_ok => (config_ok /\ remote = [auth |-> TRUE, answers |-> {Json(0)}])
    /\ products \in ProductLists
    /\ mode \in {"seq", "async"}
    /\ max_retries \in 0..MaxRetriesCfg
    /\ batch_size \in 1..MaxBatchSize
    /\ max_concurrency \in 1..MaxConcurrencyCfg
    /\ mode = "seq" => max_concurrency = 1
    /\ mode = "async" => batch_size = 1
    /\ mode = "async" => Len(products) <= MaxTasks
    /\ bpc = "running"
    /\ item = [k \in 1..Len(products) |-> NewItem]
    /\ task_detail = [k \in 1..Len(products) |-> NoDetail]
    /\ permits = IF mode = "async" THEN Min(max_concurrency, Len(products)) ELSE 0
    /\ results = [total |-> Len(products), success |-> 0, failed |-> 0, details |-> <<>>]
    /\ pacing = 0
    /\ NoReports
    /\ request = NoRequest

callerVars == <<pc, loc, ret>>
configVars == <<products, mode, max_retries, batch_size, max_concurrency, client_ok,
                remote, config_ok, now>>
clientVars == <<access_token, token_expire_time, authRequests, expire_src, trueExpiry>>

\* lines 296-303 and 374-381: an empty list returns at once.
ReturnEmpty ==
    /\ bpc = "running"
    /\ products = <<>>
    /\ bpc' = "returned"
    /\ results' = [total |-> 0, success |-> 0, failed |-> 0, details |-> <<>>]
    /\ UNCHANGED <<item, task_detail, permits, pacing>>
    /\ UNCHANGED <<callerVars, configVars, clientVars, operation_history, uploaderVars, request>>

\* A loop that hands out an item while earlier ones are still unrecorded.
SeqTurn_Any(k) == bpc = "running"

\* upload_products, lines 321-329: the two for loops reach position k when
\* the details of all positions before it are appended.
SeqTurn(k) == bpc = "running" /\ k = Len(results.details) + 1

\* A task that enters upload_with_semaphore without acquiring the semaphore.
MayStart_NoSemaphore(k) ==
    /\ item[k].pc = "queued"
    /\ IF mode = "seq"
       THEN bpc = "running" /\ k = Len(results.details) + 1
       ELSE bpc \in {"running", "raised"}

\* The next item may start: in upload_products when all items before it are
\* recorded, in upload_products_async when the semaphore has a permit (tasks
\* that gather no longer awaits keep running).
MayStart(k) ==
    /\ item[k].pc = "queued"
    /\ IF mode = "seq"
       THEN SeqTurn(k)
       ELSE bpc \in {"running", "raised"} /\ permits > 0

\* line 330 (upload_products) and line 398 (upload_with_semaphore) evaluate
\* product['title'] outside any try: a product without the key raises
\* KeyError out of the batch call.
ItemRaises(k) ==
    /\ k \in Positions
    /\ MayStart(k)
    /\ ~HasTitleKey(products[k])
    /\ bpc' = "raised"
    /\ item' = [item EXCEPT ![k].pc = "raised"]
    /\ UNCHANGED <<task_detail, permits, results, pacing>>
    /\ UNCHANGED <<callerVars, configVars, clientVars, operation_history, uploaderVars, request>>

\* upload_single_product is entered (lines 199-201): a product that fails
\* _validate_product_data is resolved at once, any other goes on to add_product.
ItemStart(k) ==
    /\ k \in Positions
    /\ MayStart(k)
    /\ HasTitleKey(products[k])
    /\ item' = [item EXCEPT ![k] =
                   IF ValidateProductData(products[k])
                   THEN [@ EXCEPT !.pc = "uploading"]
                   ELSE [@ EXCEPT !.pc = "resolved", !.success = FALSE,
                                  !.response = RespValidation]]
    /\ permits' = IF mode = "async" THEN permits - 1 ELSE permits
    /\ UNCHANGED <<bpc, task_detail, results, pacing>>
    /\ UNCHANGED <<callerVars, configVars, clientVars, operation_history, uploaderVars, request>>

\* _api_request line 470: _refresh_access_token() as one step; ok tells
\* whether it returns a token.
RefreshForRequest(ok) ==
    IF CacheValid
    THEN ok /\ UNCHANGED clientVars
    ELSE IF ~config_ok
    THEN ~ok /\ UNCHANGED clientVars
    ELSE /\ authRequests' = authRequests + 1
         /\ ok = remote.auth
         /\ IF ok
            THEN /\ access_token' = authRequests + 1
                 /\ token_expire_time' = StoredExpiry(now, Absent)
                 /\ expire_src' = authRequests + 1
                 /\ trueExpiry' = now + ExpiresInOf(Absent)
            ELSE UNCHANGED <<access_token, token_expire_time, expire_src, trueExpiry>>

\* An upload_single_product that returns True for every response it does
\* not retry.
AfterResponse_FlagsSuccess(k, resp, nrefreshes, nsends) ==
    LET it == item[k]
        d == UploadDecision(resp, it.retry_count, max_retries)
        base == [it EXCEPT !.attempts = @ + 1, !.refreshes = @ + nrefreshes,
                           !.sends = @ + nsends, !.response = resp]
    IN item' = [item EXCEPT ![k] =
           IF d = "retry"
           THEN [base EXCEPT !.retry_count = @ + 1, !.waits = @ + WaitTime(it.retry_count)]
           ELSE [base EXCEPT !.pc = "resolved", !.success = TRUE]]

\* lines 213-234: upload_single_product has the response of add_product.
AfterResponse(k, resp, nrefreshes, nsends) ==
    LET it == item[k]
        d == UploadDecision(resp, it.retry_count, max_retries)
        base == [it EXCEPT !.attempts = @ + 1, !.refreshes = @ + nrefreshes,
                           !.sends = @ + nsends, !.response = resp]
    IN item' = [item EXCEPT ![k] =
           IF d = "retry"
           THEN [base EXCEPT !.retry_count = @ + 1, !.waits = @ + WaitTime(it.retry_count)]
           ELSE [base EXCEPT !.pc = "resolved", !.success = (d = "success")]]

\* lines 236-247: the attempt raised.
AfterException(k) ==
    LET it == item[k]
        base == [it EXCEPT !.attempts = @ + 1, !.response = RespException]
    IN item' = [item EXCEPT ![k] =
           IF it.retry_count < max_retries
           THEN [base EXCEPT !.retry_count = @ + 1, !.waits = @ + WaitTime(it.retry_count)]
           ELSE [base EXCEPT !.pc = "resolved", !.success = FALSE]]

\* The record that the next append makes.
NextRecord(h) == IF h = <<>> THEN 1 ELSE h[Len(h)] + 1

\* operation_history.append(...) of lines 583, 618, 648, 728, 778
AppendHistory(h) == Append(h, NextRecord(h))

\* _record_operation, lines 440-449: append, then drop the first record when
\* the list is longer than 1000.
RecordOperation(h) ==
    LET a == Append(h, NextRecord(h))
    IN IF Len(a) > HistoryCap THEN Tail(a) ELSE a

\* The calls of _record_operation in one _api_request (lines 516, 522, 529,
\* 552): none when no token was obtained, one for the first answer, one more
\* when the resend after a network error is answered with errcode 0.
ApiRequestRecords(h, tokenOk, first, second) ==
    IF ~tokenOk THEN h
    ELSE IF first.kind = "network_error" /\ second = Json(0)
    THEN RecordOperation(RecordOperation(h))
    ELSE RecordOperation(h)

\* add_product, lines 645-653: _api_request, then the append of line 648.
AddProductRecords(h, tokenOk, first, second) ==
    AppendHistory(ApiRequestRecords(h, tokenOk, first, second))

\* One pass of upload_single_product, lines 203-247: the call of
\* self.api_client.add_product(product) (add_product lines 638-660,
\* _api_request lines 469-563), the decision on its response and, for a
\* retry, the backoff sleep.  _api_request calls _refresh_access_token once,
\* at line 470; the resend of lines 538-545 reuses the params of line 476.
ItemAttempt(k) ==
    /\ k \in Positions
    /\ item[k].pc = "uploading"
    /\ \/ /\ ~client_ok
          /\ AfterException(k)
          /\ UNCHANGED <<clientVars, operation_history>>
       \/ /\ client_ok
          /\ ~HasApiFields(products[k])
          /\ AfterResponse(k, RespMissingField, 0, 0)
          /\ UNCHANGED <<clientVars, operation_history>>
       \/ /\ client_ok
          /\ HasApiFields(products[k])
          /\ RefreshForRequest(FALSE)
          /\ AfterResponse(k, RespNoToken, 1, 0)
          /\ operation_history' = AddProductRecords(operation_history, FALSE,
                                                    HttpError, HttpError)
       \/ /\ client_ok
          /\ HasApiFields(products[k])
          /\ RefreshForRequest(TRUE)
          /\ \E first \in remote.answers, second \in remote.answers :
                /\ first.kind # "network_error" => second = first
                /\ AfterResponse(k, ApiRequestResult(first, second), 1,
                                 ApiRequestSends(first))
                /\ operation_history' = AddProductRecords(operation_history, TRUE,
                                                          first, second)
    /\ UNCHANGED <<bpc, task_detail, permits, results, pacing>>
    /\ UNCHANGED <<callerVars, configVars, uploaderVars, request>>

\* upload_products, lines 321-329: the batch loop's i and j for position k.
BatchStart(k) == ((k - 1) \div batch_size) * batch_size
\* A loop that numbers every item as the first of its batch.
BatchJ_Zero(k) == 0

BatchJ(k) == (k - 1) % batch_size
BatchLen(k) == Min(batch_size, Len(products) - BatchStart(k))

\* lines 335-342 and 406-413: product stands for the title and the
\* out_product_id of the product, timestamp (datetime.now()) is the rank of
\* the instant among the instants at which details are made.
Detail(index, k) ==
    [index |-> index, product |-> products[k].id,
     success |-> item[k].success, response |-> item[k].response,
     timestamp |-> Cardinality({j \in Positions : item[j].pc = "done"}) + 1]

\* A tally without its else branch: failures are appended but not counted.
RecordDetail_NoFailed(res, d) ==
    [res EXCEPT !.details = Append(@, d),
                !.success = IF d.success THEN @ + 1 ELSE @]

\* lines 343-348: append the detail and count it.
RecordDetail(res, d) ==
    [res EXCEPT !.details = Append(@, d),
                !.success = IF d.success THEN @ + 1 ELSE @,
                !.failed = IF d.success THEN @ ELSE @ + 1]

\* upload_products, lines 332-353: the result of upload_single_product is
\* recorded and, unless the item is the last of its batch, the loop sleeps
\* request_interval.
SeqRecord(k) ==
    /\ k \in Positions
    /\ mode = "seq"
    /\ bpc = "running"
    /\ item[k].pc = "resolved"
    /\ results' = RecordDetail(results, Detail(BatchStart(k) + BatchJ(k) + 1, k))
    /\ pacing' = IF BatchJ(k) < BatchLen(k) - 1 THEN pacing + 1 ELSE pacing
    /\ item' = [item EXCEPT ![k].pc = "done"]
    /\ UNCHANGED <<bpc, task_detail, permits>>
    /\ UNCHANGED <<callerVars, configVars, clientVars, operation_history, uploaderVars, request>>

\* round(success / total * 100, 2), in hundredths of a percent
SuccessRate(success, total) == (2 * 10000 * success + total) \div (2 * total)

\* lines 355-365 and 436-446
Finished(res) ==
    [total |-> res.total, success |-> res.success, failed |-> res.failed,
     details |-> res.details,
     success_rate |-> IF res.total > 0 THEN SuccessRate(res.success, res.total) ELSE 0]

\* upload_products, lines 355-365: the loop is over.
SeqFinish ==
    /\ mode = "seq"
    /\ bpc = "running"
    /\ products # <<>>
    /\ Len(results.details) = Len(products)
    /\ results' = Finished(results)
    /\ bpc' = "returned"
    /\ UNCHANGED <<item, task_detail, permits, pacing>>
    /\ UNCHANGED <<callerVars, configVars, clientVars, operation_history, uploaderVars, request>>

\* upload_with_semaphore, lines 402-415: run_in_executor has returned, the
\* task returns its detail and leaves the semaphore.
AsyncTaskReturn(k) ==
    /\ k \in Positions
    /\ mode = "async"
    /\ bpc # "cancelled"
    /\ item[k].pc = "resolved"
    /\ task_detail' = [task_detail EXCEPT ![k] = Detail((k - 1) + 1, k)]
    /\ item' = [item EXCEPT ![k].pc = "done"]
    /\ permits' = permits + 1
    /\ UNCHANGED <<bpc, results, pacing>>
    /\ UNCHANGED <<callerVars, configVars, clientVars, operation_history, uploaderVars, request>>

\* A collection that takes the details as the tasks complete.
RecordAll_ByCompletion(res, ds, n) ==
    [res EXCEPT !.details = [i \in 1..Len(ds) |->
                                CHOOSE d \in {ds[j] : j \in 1..Len(ds)} : d.timestamp = i],
                !.success = Cardinality({j \in 1..Len(ds) : ds[j].success}),
                !.failed = Cardinality({j \in 1..Len(ds) : ~ds[j].success})]

RECURSIVE RecordAll(_, _, _)
\* lines 429-434: for detail in details
RecordAll(res, ds, n) ==
    IF n > Len(ds) THEN res ELSE RecordAll(RecordDetail(res, ds[n]), ds, n + 1)

\* upload_products_async, lines 426-446: gather has every task's detail, in
\* the order of the tasks.
AsyncFinish ==
    /\ mode = "async"
    /\ bpc = "running"
    /\ products # <<>>
    /\ \A k \in Positions : item[k].pc = "done"
    /\ results' = Finished(RecordAll(results, task_detail, 1))
    /\ bpc' = "returned"
    /\ UNCHANGED <<item, task_detail, permits, pacing>>
    /\ UNCHANGED <<callerVars, configVars, clientVars, operation_history, uploaderVars, request>>

\* The task that runs upload_products_async is cancelled while it awaits
\* gather at line 426: gather cancels the tasks it awaits and CancelledError
\* leaves upload_products_async, which has no handler for it.  A task that
\* waits for the semaphore never enters it (pc "cancelled"), a task whose
\* executor call has returned drops the result (pc "interrupted"), and the
\* executor threads that are running upload_single_product run on.
Cancel ==
    /\ mode = "async"
    /\ bpc = "running"
    /\ \E k \in Positions : item[k].pc # "queued"
    /\ bpc' = "cancelled"
    /\ item' = [k \in Positions |->
                   IF item[k].pc = "queued" THEN [item[k] EXCEPT !.pc = "cancelled"]
                   ELSE IF item[k].pc = "resolved" THEN [item[k] EXCEPT !.pc = "interrupted"]
                   ELSE item[k]]
    /\ UNCHANGED <<task_detail, permits, results, pacing>>
    /\ UNCHANGED <<callerVars, configVars, clientVars, operation_history, uploaderVars, request>>

NextBatch ==
    \/ ReturnEmpty
    \/ \E k \in Slots : ItemRaises(k)
    \/ \E k \in Slots : ItemStart(k)
    \/ \E k \in Slots : ItemAttempt(k)
    \/ \E k \in Slots : SeqRecord(k)
    \/ SeqFinish
    \/ \E k \in Slots : AsyncTaskReturn(k)
    \/ AsyncFinish
    \/ Cancel

SpecBatch == InitBatch /\ [][NextBatch]_vars

\* The batch under its scheduling: the interpreter runs the loop of
\* upload_products on, the event loop runs every task that is ready (a task
\* whose semaphore wait or executor future is done), and every executor
\* thread runs upload_single_product on, whose requests all have a timeout
\* (wechat_shop_api.py line 64).  Cancellation is left to the caller.
BatchFairness ==
    /\ WF_vars(ReturnEmpty)
    /\ \A k \in Slots : WF_vars(ItemRaises(k))
    /\ \A k \in Slots : WF_vars(ItemStart(k))
    /\ \A k \in Slots : WF_vars(ItemAttempt(k))
    /\ \A k \in Slots : WF_vars(SeqRecord(k))
    /\ WF_vars(SeqFinish)
    /\ \A k \in Slots : WF_vars(AsyncTaskReturn(k))
    /\ WF_vars(AsyncFinish)

SpecBatchFair == SpecBatch /\ BatchFairness

(***************************************************************************)
(* SpecUpload: upload_products([product]) for one product, with max_retries *)
(* up to the default of line 207; what is followed is the backoff.         *)
(***************************************************************************)

InitUpload ==
    /\ access_token = EmptyToken
    /\ token_expire_time = 0
    /\ config_ok \in BOOLEAN
    /\ now = TickLen
    /\ pc = [c \in Callers |-> "idle"]
    /\ loc = [c \in Callers |-> NoLoc]
    /\ ret = [c \in Callers |-> NoRet]
    /\ authRequests = 0
    /\ expire_src = 0
    /\ trueExpiry = 0
    /\ operation_history = <<>>
    /\ remote \in Remotes
    /\ ~config_ok => remote.auth
    /\ client_ok \in BOOLEAN
    /\ ~client_ok => (config_ok /\ remote = [auth |-> TRUE, answers |-> {Json(0)}])
    /\ products \in {pl \in ProductLists : Len(pl) = 1}
    /\ mode = "seq"
    /\ max_retries \in 0..MaxBackoffRetries
    /\ batch_size = 1
    /\ max_concurrency = 1
    /\ bpc = "running"
    /\ item = [k \in 1..Len(products) |-> NewItem]
    /\ task_detail = [k \in 1..Len(products) |-> NoDetail]
    /\ permits = 0
    /\ results = [total |-> Len(products), success |-> 0, failed |-> 0, details |-> <<>>]
    /\ pacing = 0
    /\ NoReports
    /\ request = NoRequest

NextUpload ==
    \/ \E k \in Slots : ItemRaises(k)
    \/ \E k \in Slots : ItemStart(k)
    \/ \E k \in Slots : ItemAttempt(k)
    \/ \E k \in Slots : SeqRecord(k)
    \/ SeqFinish

SpecUpload == InitUpload /\ [][NextUpload]_vars

(***************************************************************************)
(* SpecHistory: one WeChatShopAPIClient on which operations are called one *)
(* after the other; what is followed is self.operation_history.            *)
(***************************************************************************)

\* A client after __init__ (line 365: operation_history = []); no uploader.
InitHistory ==
    /\ access_token = EmptyToken
    /\ token_expire_time = 0
    /\ config_ok \in BOOLEAN
    /\ now = TickLen
    /\ pc = [c \in Callers |-> "idle"]
    /\ loc = [c \in Callers |-> NoLoc]
    /\ ret = [c \in Callers |-> NoRet]
    /\ authRequests = 0
    /\ expire_src = 0
    /\ trueExpiry = 0
    /\ operation_history = <<>>
    /\ remote \in {[auth |-> TRUE, answers |-> Answers], [auth |-> FALSE, answers |-> {}]}
    /\ ~config_ok => remote.auth
    /\ products = <<>>
    /\ mode = "none"
    /\ max_retries = 0
    /\ batch_size = 1
    /\ max_concurrency = 1
    /\ client_ok = TRUE
    /\ bpc = "none"
    /\ item = <<>>
    /\ task_detail = <<>>
    /\ permits = 0
    /\ results = [total |-> 0, success |-> 0, failed |-> 0, details |-> <<>>]
    /\ pacing = 0
    /\ NoReports
    /\ request = NoRequest

\* lines 698 and 728: add_product, then the append of the report
BatchUploadAppends(h) == AppendHistory(AppendHistory(h))

\* What a client operation does to the history once its _api_request has
\* returned: add_product appends (line 648), get_category calls
\* _record_operation (line 1006), the batch upload appends twice.
AfterRequest(op, h) ==
    CASE op = "add_product" -> AppendHistory(h)
      [] op = "get_category" -> RecordOperation(h)
      [] op = "batch_upload" -> BatchUploadAppends(h)

\* A client operation: its _api_request (the token is refreshed at line 470,
\* the request is sent and recorded), then what it does to the history.
ClientOperation(op) ==
    /\ \/ /\ RefreshForRequest(FALSE)
          /\ operation_history' =
                AfterRequest(op, ApiRequestRecords(operation_history, FALSE,
                                                   HttpError, HttpError))
       \/ /\ RefreshForRequest(TRUE)
          /\ \E first \in remote.answers, second \in remote.answers :
                /\ first.kind # "network_error" => second = first
                /\ operation_history' =
                      AfterRequest(op, ApiRequestRecords(operation_history, TRUE,
                                                         first, second))
    /\ UNCHANGED <<callerVars, configVars, uploaderVars, request>>
    /\ UNCHANGED <<bpc, item, task_detail, permits, results, pacing>>

\* add_product(product_data) for a product with every required field, lines
\* 643-655; upload_product (lines 610-625) and get_product (lines 774-785)
\* treat the history in the same way.
ClientAddProduct ==
    /\ mode = "none"
    /\ NextRecord(operation_history) <= MaxRecords
    /\ ClientOperation("add_product")

\* get_category(), lines 1000-1008: _api_request, then _record_operation;
\* get_all_category and get_channels_category do the same.
ClientGetCategory ==
    /\ mode = "none"
    /\ NextRecord(operation_history) <= MaxRecords
    /\ ClientOperation("get_category")

\* batch_upload_products_from_data([product]) for one product with every
\* required field and no image file, lines 680-734.
ClientBatchUpload ==
    /\ mode = "none"
    /\ NextRecord(operation_history) <= MaxRecords
    /\ ClientOperation("batch_upload")

NextHistory ==
    \/ ClientAddProduct
    \/ ClientGetCategory
    \/ ClientBatchUpload

SpecHistory == InitHistory /\ [][NextHistory]_vars

(***************************************************************************)
(* SpecRequest: calls of _api_request on one client, one after the other.  *)
(***************************************************************************)

InitRequest ==
    /\ access_token = EmptyToken
    /\ token_expire_time = 0
    /\ config_ok \in BOOLEAN
    /\ now = TickLen
    /\ pc = [c \in Callers |-> "idle"]
    /\ loc = [c \in Callers |-> NoLoc]
    /\ ret = [c \in Callers |-> NoRet]
    /\ authRequests = 0
    /\ expire_src = 0
    /\ trueExpiry = 0
    /\ operation_history = <<>>
    /\ remote \in {[auth |-> TRUE, answers |-> Answers], [auth |-> FALSE, answers |-> {}]}
    /\ ~config_ok => remote.auth
    /\ products = <<>>
    /\ mode = "request"
    /\ max_retries = 0
    /\ batch_size = 1
    /\ max_concurrency = 1
    /\ client_ok = TRUE
    /\ bpc = "none"
    /\ item = <<>>
    /\ task_detail = <<>>
    /\ permits = 0
    /\ results = [total |-> 0, success |-> 0, failed |-> 0, details |-> <<>>]
    /\ pacing = 0
    /\ NoReports
    /\ request = NoRequest

\* line 537: time.sleep(1) before the resend
ApiRequestWait(first) == IF first.kind = "network_error" THEN 1 ELSE 0

\* _api_request(api_path, data=...), lines 469-563, as one step: the token
\* (line 470), the send, for a network error the wait and the resend, the
\* calls of _record_operation and the value returned.
ApiRequest ==
    /\ mode = "request"
    /\ request.calls < MaxRequests
    /\ \/ /\ RefreshForRequest(FALSE)
          /\ operation_history' = ApiRequestRecords(operation_history, FALSE,
                                                    HttpError, HttpError)
          /\ request' = [calls |-> request.calls + 1, token |-> FALSE,
                         first |-> "none", second |-> "none",
                         sends |-> 0, waited |-> 0, result |-> RespNoToken,
                         recorded |-> NextRecord(operation_history')
                                          - NextRecord(operation_history)]
       \/ /\ RefreshForRequest(TRUE)
          /\ \E first \in remote.answers, second \in remote.answers :
                /\ first.kind # "network_error" => second = first
                /\ operation_history' = ApiRequestRecords(operation_history, TRUE,
                                                          first, second)
                /\ request' = [calls |-> request.calls + 1, token |-> TRUE,
                               first |-> first.kind,
                               second |-> IF first.kind # "network_error" THEN "none"
                                          ELSE IF second = Json(0) THEN "json_ok"
                                          ELSE second.kind,
                               sends |-> ApiRequestSends(first),
                               waited |-> ApiRequestWait(first),
                               result |-> ApiRequestResult(first, second),
                               recorded |-> NextRecord(operation_history')
                                                - NextRecord(operation_history)]
    /\ UNCHANGED <<callerVars, configVars, uploaderVars>>
    /\ UNCHANGED <<bpc, item, task_detail, permits, results, pacing>>

\* The clock of SpecRequest.
RequestTick ==
    /\ mode = "request"
    /\ Tick

NextRequest ==
    \/ ApiRequest
    \/ RequestTick

SpecRequest == InitRequest /\ [][NextRequest]_vars

(***************************************************************************)
(* SpecReport: a results dictionary as a batch call returns it, on which   *)
(* generate_upload_report and save_upload_results are called while the     *)
(* clock advances.                                                         *)
(***************************************************************************)

\* results.get('success_rate', 0), in hundredths of a percent
RateOf(res) == IF "success_rate" \in DOMAIN res THEN res.success_rate ELSE 0

\* A top rating that starts above 95 instead of at 95.
Rating_StrictTop(rate) ==
    IF rate > 9500 THEN "excellent"
    ELSE IF rate >= 8000 THEN "good"
    ELSE IF rate >= 6000 THEN "fair"
    ELSE "poor"

\* lines 551-559
Rating(rate) ==
    IF rate >= 9500 THEN "excellent"
    ELSE IF rate >= 8000 THEN "good"
    ELSE IF rate >= 6000 THEN "fair"
    ELSE "poor"

\* line 574: response.get('errcode', '未知')
ReportCodeOf(resp) == IF "errcode" \in DOMAIN resp THEN resp.errcode ELSE UnknownCode

\* lines 570-571: the details with a false success, in the order of the list
FailedDetails(res) == SelectSeq(res.details, LAMBDA d : ~d.success)

\* lines 568, 577: error_codes[error_code] = error_codes.get(error_code, 0) + 1
ErrorCodes(fs) ==
    [c \in {ReportCodeOf(fs[i].response) : i \in 1..Len(fs)} |->
        Cardinality({i \in 1..Len(fs) : ReportCodeOf(fs[i].response) = c})]

\* generate_upload_report, lines 539-594: the content of the report made
\* from res at instant t: the line of the generation time, the header
\* counts, the rating, one block per failed detail and the code statistics.
GenerateUploadReport(res, t) ==
    LET fs == FailedDetails(res)
    IN [generated_at |-> t,
        header |-> [total |-> res.total, success |-> res.success,
                    failed |-> res.failed, success_rate |-> RateOf(res)],
        rating |-> Rating(RateOf(res)),
        listed |-> [i \in 1..Len(fs) |->
                       [index |-> fs[i].index, product |-> fs[i].product,
                        code |-> ReportCodeOf(fs[i].response)]],
        error_codes |-> ErrorCodes(fs)]

\* A test that takes no response for a dictionary.
IsDict_Never(resp) == FALSE

\* isinstance(detail['response'], dict): a value that is not a dictionary
\* is written [text |-> ...].
IsDict(resp) == "text" \notin DOMAIN resp

\* _make_results_serializable, lines 519-529, as seen from the caller's
\* results: results.copy() is shallow, so the details are the caller's.
MakeResultsSerializable(res) ==
    [res EXCEPT !.details =
        [i \in 1..Len(@) |->
            IF IsDict(@[i].response) THEN @[i]
            ELSE [@[i] EXCEPT !.response = [result |-> "str"]]]]

\* generate_upload_report(results, file_path), lines 531-605; withFile tells
\* whether file_path was given.
GenerateReport(withFile) ==
    /\ bpc = "returned"
    /\ Len(reports) < MaxReports
    /\ reports' = Append(reports, GenerateUploadReport(results, now))
    /\ files_written' = IF withFile THEN files_written + 1 ELSE files_written
    /\ UNCHANGED <<tokenVars, products, mode, max_retries, batch_size,
                   max_concurrency, client_ok, remote, bpc, item, task_detail,
                   permits, results, pacing, stats, request>>

\* save_upload_results(results), lines 448-486
SaveResults ==
    /\ bpc = "returned"
    /\ files_written < MaxReports
    /\ results' = MakeResultsSerializable(results)
    /\ files_written' = files_written + 1
    /\ UNCHANGED <<tokenVars, products, mode, max_retries, batch_size,
                   max_concurrency, client_ok, remote, bpc, item, task_detail,
                   permits, pacing, stats, reports, request>>

\* The response returned with True at line 218: its errcode is 0.
RespUploaded == [errcode |-> 0]

\* The responses that upload_single_product returns with False.
FailureResponses ==
    {RespValidation, RespException, RespMissingField, RespNoToken,
     RespRequestException, RespSuccess(0)} \cup {RespApiError(c) : c \in RemoteErrorCodes}

\* The detail that a batch records at position i for a success, and for a
\* failure with response r.
GivenDetail(i, ok, r) ==
    [index |-> i, product |-> i, success |-> ok, response |-> r, timestamp |-> i]

\* The details lists given to the report: every list of at most
\* MaxReportDetails details, and the lists of at most MaxTotal details that
\* are successes followed by failures with one response.
GivenDetails ==
    UNION {{[i \in 1..n |-> GivenDetail(i, f[i] = RespUploaded, f[i])] :
                f \in [1..n -> FailureResponses \cup {RespUploaded}]}
           : n \in 0..MaxReportDetails}
    \cup {[i \in 1..t |-> IF i <= ok THEN GivenDetail(i, TRUE, RespUploaded)
                                     ELSE GivenDetail(i, FALSE, r)] :
             t \in 1..MaxTotal, ok \in 0..MaxTotal, r \in {RespNoToken, RespApiError(401)}}

\* What upload_products returns for a list whose details are ds (lines
\* 296-303, 311-316, 343-348, 355-360).
ResultsFor(ds) ==
    IF ds = <<>>
    THEN [total |-> 0, success |-> 0, failed |-> 0, details |-> <<>>]
    ELSE Finished(RecordAll([total |-> Len(ds), success |-> 0, failed |-> 0,
                             details |-> <<>>], ds, 1))

InitReport ==
    /\ access_token = EmptyToken
    /\ token_expire_time = 0
    /\ config_ok = TRUE
    /\ now = TickLen
    /\ pc = [c \in Callers |-> "idle"]
    /\ loc = [c \in Callers |-> NoLoc]
    /\ ret = [c \in Callers |-> NoRet]
    /\ authRequests = 0
    /\ expire_src = 0
    /\ trueExpiry = 0
    /\ operation_history = <<>>
    /\ remote = [auth |-> TRUE, answers |-> {}]
    /\ products = <<>>
    /\ mode = "report"
    /\ max_retries = 0
    /\ batch_size = 1
    /\ max_concurrency = 1
    /\ client_ok = TRUE
    /\ bpc = "returned"
    /\ item = <<>>
    /\ task_detail = <<>>
    /\ permits = 0
    /\ \E ds \in GivenDetails : results = ResultsFor(ds)
    /\ pacing = 0
    /\ NoReports
    /\ request = NoRequest

\* The clock of SpecReport.
ReportTick ==
    /\ mode = "report"
    /\ Tick

NextReport ==
    \/ ReportTick
    \/ \E withFile \in BOOLEAN : GenerateReport(withFile)
    \/ SaveResults

SpecReport == InitReport /\ [][NextReport]_vars

(***************************************************************************)
(* SpecSession: one uploader that runs upload_products([product]) and then *)
(* saves and reports the results it got back.                              *)
(***************************************************************************)

NextSession ==
    \/ \E k \in Slots : ItemRaises(k)
    \/ \E k \in Slots : ItemStart(k)
    \/ \E k \in Slots : ItemAttempt(k)
    \/ \E k \in Slots : SeqRecord(k)
    \/ SeqFinish
    \/ \E withFile \in BOOLEAN : GenerateReport(withFile)
    \/ SaveResults

SpecSession == InitUpload /\ [][NextSession]_vars

(***************************************************************************)
(* Claims about the token lifecycle, checked under SpecToken.              *)
(***************************************************************************)

\* Callers that found the cache invalid and have an auth request of their own
\* sent and not yet fully processed.
Refreshing == {c \in Callers : pc[c] \in {"await", "write_exp", "ret_fresh"}}

\* C1: single-flight refresh: callers that meet an expired token share one
\* auth request, so two callers never have a refresh of their own under way
\* at the same time.
C1_SingleFlight == Cardinality(Refreshing) <= 1

\* C2: every token that get_access_token returns is outside the refresh
\* margin at the return: now + 1200 < instant of issue + expires_in.
C2_RefreshMargin ==
    \A c \in Callers :
        (pc[c] = "returned" /\ ret[c].tok # NoToken) => ret[c].outsideMargin

\* C3: on a client with a complete configuration, a call that meets an expired
\* credential sends an auth request before it returns, and a token it returns
\* has a stored expiry strictly later than now.
C3_ExpiredForcesRefresh ==
    \A c \in Callers :
        (config_ok /\ pc[c] = "returned" /\ ret[c].kind # "cached")
            => /\ ret[c].kind \in AuthFailKinds \cup {"fresh", "bad_expires"}
               /\ ret[c].tok # NoToken => ret[c].storedLater

C5_AtomicReplace ==
    \A c \in Callers :
        (pc[c] = "returned" /\ ret[c].tok # NoToken) => ret[c].src = ret[c].tok


(***************************************************************************)
(* Claims about the batch uploader, checked under SpecBatch.               *)
(***************************************************************************)

\* The entry at Python position p (0-based) of results['details'].
DetailAt(p) == results.details[p + 1]
PyPositions == 0..(Len(results.details) - 1)

\* C6 (as stated): a returned batch has one detail per product and the detail
\* at position i of the list carries index i.
C6_IndexEqualsPosition ==
    bpc = "returned" =>
        /\ Len(results.details) = Len(products)
        /\ \A p \in PyPositions : DetailAt(p).index = p

\* C6 (amended): a returned batch has one detail per product and the detail
\* at position i of the list (counted from 0) carries index i + 1.
C6_IndexIsOneBased ==
    bpc = "returned" =>
        /\ Len(results.details) = Len(products)
        /\ \A p \in PyPositions : DetailAt(p).index = p + 1

\* C6 witness: upload_products_async has returned for at least two products
\* that both went through add_product.
C6_Witness ==
    /\ bpc = "returned"
    /\ mode = "async"
    /\ Len(products) >= 2
    /\ \A k \in Positions : item[k].attempts >= 1

\* C7: every returned result has success + failed = total = len(details), and
\* in upload_products success + failed = len(details) after every recorded item.
C7_SummaryInvariant ==
    /\ bpc = "returned" =>
          /\ results.success + results.failed = results.total
          /\ results.total = Len(results.details)
    /\ mode = "seq" => results.success + results.failed = Len(results.details)

\* C7 witness: upload_products has returned for at least two products, with
\* their failures counted.
C7_Witness ==
    /\ bpc = "returned"
    /\ mode = "seq"
    /\ results.total >= 2
    /\ results.failed >= 2

\* C8: no item makes the batch call raise.
C8_NeverAborts == bpc # "raised"

\* The response is a remote error whose code is in codes.
IsRemoteError(resp, codes) ==
    /\ "data" \in DOMAIN resp
    /\ ~resp.success
    /\ resp.data.errcode \in codes

\* C9: an item whose first submission is answered with a code of the
\* non-retryable list is resolved by that answer: no retry is pending and no
\* backoff wait was made.
C9_NonRetryableIsFinal ==
    \A k \in Positions :
        (item[k].attempts = 1 /\ IsRemoteError(item[k].response, NonRetryableCodes))
            => (item[k].pc # "uploading" /\ item[k].waits = 0)

\* C10: a batch of one item against a remote that always answers errcode
\* 40001 sends the item once and returns failed = 1, success = 0.
C10_Always40001 ==
    (/\ bpc = "returned"
     /\ Len(products) = 1
     /\ remote.answers = {Json(40001)}
     /\ item[1].sends >= 1)
        => /\ item[1].sends = 1
           /\ item[1].attempts = 1
           /\ results.failed = 1
           /\ results.success = 0

\* The response is a failure that upload_single_product may retry: a
\* dictionary from add_product whose top-level errcode is neither 0 nor in the
\* non-retryable list.
IsRetryableFailure(resp) ==
    /\ "success" \in DOMAIN resp
    /\ ErrcodeOf(resp) \notin ({0} \cup NonRetryableCodes)

\* C11: the retry counter never exceeds max_retries, an item never has more
\* than max_retries + 1 calls of add_product, and an item that upload_single_product
\* has resolved on a retryable failure had exactly max_retries + 1 calls of
\* add_product and is failed, in the item and in its recorded detail.
C11_RetryCount ==
    \A k \in Positions :
        /\ item[k].retry_count <= max_retries
        /\ item[k].attempts <= max_retries + 1
        /\ (item[k].pc \in {"resolved", "done"} /\ IsRetryableFailure(item[k].response))
              => /\ item[k].attempts = max_retries + 1
                 /\ item[k].retry_count = max_retries
                 /\ ~item[k].success
                 /\ (mode = "seq" /\ item[k].pc = "done")
                       => ~results.details[k].success

\* C11 witness: with max_retries >= 1, an item that the remote refused with
\* errcode 40001 every time is recorded as failed after max_retries + 1
\* submissions.
C11_Witness ==
    \E k \in Positions :
        /\ max_retries >= 1
        /\ mode = "seq"
        /\ item[k].pc = "done"
        /\ remote.answers = {Json(40001)}
        /\ item[k].response = RespApiError(40001)
        /\ item[k].sends = max_retries + 1
        /\ ~results.details[k].success

\* C12: for every item, the requests sent to the transport, the resends of
\* _api_request included, number at most max_retries + 1.
C12_LayeredRetryBound ==
    \A k \in Positions : item[k].sends <= max_retries + 1

\* C13: every request sent for an item after a failed one follows a call of
\* _refresh_access_token of its own, so an item never has more requests sent
\* than calls of _refresh_access_token.
C13_RetryReacquiresToken ==
    \A k \in Positions : item[k].sends <= item[k].refreshes

\* The product is rejected by a required-field check: by
\* _validate_product_data, or by the check at the start of add_product.
Malformed(p) == HasTitleKey(p) /\ (~ValidateProductData(p) \/ ~HasApiFields(p))

\* C14: for a malformed item no request is sent, no backoff wait is made, and
\* upload_single_product resolves it as failed in its first pass.
C14_MalformedFailsFast ==
    \A k \in Positions :
        (client_ok /\ Malformed(products[k]) /\ item[k].pc # "queued")
            => /\ item[k].sends = 0
               /\ item[k].waits = 0
               /\ item[k].retry_count = 0
               /\ item[k].attempts <= 1
               /\ item[k].pc \in {"resolved", "done"} => ~item[k].success
               /\ (item[k].attempts = 1 \/ ~ValidateProductData(products[k]))
                     => item[k].pc \in {"resolved", "done"}

\* The items whose task is inside "async with semaphore": upload_single_product
\* is running in the executor, or has returned to a task that has not left
\* the block yet.
InFlight == {k \in Positions : item[k].pc \in {"uploading", "resolved"}}

\* C15: in upload_products_async at most max_concurrency executions of
\* upload_single_product are in flight at any instant.
C15_ConcurrencyBound ==
    mode = "async" => Cardinality(InFlight) <= max_concurrency

\* C15 witness: upload_products_async has more products than max_concurrency,
\* max_concurrency of them are being uploaded and another one is waiting for
\* the semaphore.
C15_Witness ==
    /\ mode = "async"
    /\ Len(products) > max_concurrency
    /\ Cardinality({k \in Positions : item[k].pc = "uploading"}) = max_concurrency
    /\ \E k \in Positions : item[k].pc = "queued" /\ HasTitleKey(products[k])

\* C16: when upload_products_async returns, the entry at position k of
\* details is the result of the k-th product, whatever the order in which the
\* tasks completed.
C16_AsyncKeepsInputOrder ==
    (mode = "async" /\ bpc = "returned") =>
        /\ Len(results.details) = Len(products)
        /\ \A k \in Positions :
              /\ results.details[k].product = products[k].id
              /\ results.details[k].success = item[k].success
              /\ results.details[k].response = item[k].response

\* C16 witness: upload_products_async has returned and a later product's task
\* completed before an earlier product's task.
C16_Witness ==
    /\ mode = "async"
    /\ bpc = "returned"
    /\ \E j \in Positions, k \in Positions :
          /\ j < k
          /\ results.details[k].timestamp < results.details[j].timestamp

\* C17: upload_products sleeps request_interval after every item but the
\* last of the input: after k recorded items of n, k pacing waits have been
\* made if k < n and n - 1 if k = n, for every batch_size.
C17_PacingBetweenItems ==
    (mode = "seq" /\ bpc \in {"running", "returned"} /\ products # <<>>) =>
        pacing = Min(Len(results.details), Len(products) - 1)

(***************************************************************************)
(* Claims about the operation history, checked under SpecHistory.          *)
(***************************************************************************)

\* The records are in the order of their append and none is missing between
\* the first and the last: only oldest records have been dropped.
OldestEvictedFirst ==
    \A i \in 1..(Len(operation_history) - 1) :
        operation_history[i + 1] = operation_history[i] + 1

\* C18: after any sequence of client operations the history holds at most
\* 1000 records, and the records dropped so far are the oldest ones, the
\* others keeping their order.
C18_HistoryBounded ==
    /\ Len(operation_history) <= HistoryCap
    /\ OldestEvictedFirst

(***************************************************************************)
(* Further claims about the batch uploader, checked under SpecBatch.       *)
(***************************************************************************)

\* C19: upload_products over 3 valid products, on a configured client whose
\* remote answers every add_product request with errcode 0, returns total = 3,
\* success = 3, failed = 0 and success_rate = 100.0, each product having been
\* submitted once.
C19_ThreeSucceedFirstTry ==
    (/\ bpc = "returned"
     /\ mode = "seq"
     /\ Len(products) = 3
     /\ \A k \in Positions : products[k].kind = "full"
     /\ client_ok /\ config_ok
     /\ remote = [auth |-> TRUE, answers |-> {Json(0)}])
        => /\ results.total = 3
           /\ results.success = 3
           /\ results.failed = 0
           /\ results.success_rate = 10000
           /\ \A k \in Positions : item[k].attempts = 1 /\ item[k].sends = 1

\* C20: when the credentials are missing (appid or appsecret empty, so that
\* _check_config fails, or absent, so that no client was built) the batch
\* attempts no item, here no well-formed one, and makes no retry and no
\* backoff wait for it.
C20_MissingCredentialsFatal ==
    (~config_ok \/ ~client_ok) =>
        \A k \in Positions :
            products[k].kind = "full" =>
                /\ item[k].attempts = 0
                /\ item[k].retry_count = 0
                /\ item[k].waits = 0

(***************************************************************************)
(* Claims about the report, checked under SpecReport.                      *)
(***************************************************************************)

\* C21: the rating of every report is decided by the success_rate of the
\* results alone: top from 95, second from 80 to under 95, third from 60 to
\* under 80, lowest under 60 and for results without success_rate.
C21_RatingThresholds ==
    \A i \in 1..Len(reports) :
        LET rating == reports[i].rating
        IN IF "success_rate" \notin DOMAIN results THEN rating = "poor"
           ELSE LET rate == results.success_rate
                IN /\ rating \in {"excellent", "good", "fair", "poor"}
                   /\ rating = "excellent" <=> rate >= 9500
                   /\ rating = "good" <=> (8000 <= rate /\ rate < 9500)
                   /\ rating = "fair" <=> (6000 <= rate /\ rate < 8000)
                   /\ rating = "poor" <=> rate < 6000

\* C21 witness: reports were made for a success rate of exactly 95 and the
\* rating is the top one.
C21_Witness ==
    /\ mode = "report"
    /\ reports # <<>>
    /\ "success_rate" \in DOMAIN results
    /\ results.success_rate = 9500
    /\ reports[1].rating = "excellent"

\* The error code a response carries: its own errcode or, for a result of
\* the client, the errcode of the platform's answer under data.
CarriedCode(resp) ==
    IF "errcode" \in DOMAIN resp THEN resp.errcode
    ELSE IF "data" \in DOMAIN resp /\ "errcode" \in DOMAIN resp.data THEN resp.data.errcode
    ELSE UnknownCode

\* C22: every report lists the failed details once each, in order, and no
\* successful one; for every code its count is the number of failed details
\* whose response carries that code, details without a code counting as
\* unknown, and the counts sum to the number of failed details.
C22_HistogramExact ==
    \A n \in 1..Len(reports) :
        LET r == reports[n]
            fs == SelectSeq(results.details, LAMBDA d : d.success = FALSE)
            codes == {CarriedCode(fs[i].response) : i \in 1..Len(fs)}
            Sum[cs \in SUBSET DOMAIN r.error_codes] ==
                IF cs = {} THEN 0
                ELSE LET c == CHOOSE x \in cs : TRUE
                     IN r.error_codes[c] + Sum[cs \ {c}]
        IN /\ Len(r.listed) = Len(fs)
           /\ \A i \in 1..Len(fs) : r.listed[i].index = fs[i].index
           /\ Sum[DOMAIN r.error_codes] = Len(fs)
           /\ DOMAIN r.error_codes = codes
           /\ \A c \in codes :
                  r.error_codes[c] =
                      Cardinality({i \in 1..Len(fs) : CarriedCode(fs[i].response) = c})

\* The listing and the total of the histogram, without the per-code counts.
C22_ListingExact ==
    \A n \in 1..Len(reports) :
        LET r == reports[n]
            fs == SelectSeq(results.details, LAMBDA d : d.success = FALSE)
        IN /\ Len(r.listed) = Len(fs)
           /\ \A i \in 1..Len(fs) : r.listed[i].index = fs[i].index
           /\ \A c \in DOMAIN r.error_codes : r.error_codes[c] >= 1

\* C23: a call of generate_upload_report returns the text that every earlier
\* call with the same results returned, leaves the results as they were and
\* writes no file.
C23_ReportPure ==
    [][Len(reports') > Len(reports) =>
           /\ results' = results
           /\ files_written' = files_written
           /\ \A i \in 1..Len(reports) : reports'[Len(reports')] = reports[i]]_vars

\* generate_upload_report leaves its argument as it was.
C23_ArgumentKept ==
    [][Len(reports') > Len(reports) => results' = results]_vars

(***************************************************************************)
(* Claims about cancellation, order and progress of a batch (SpecBatch).   *)
(***************************************************************************)

\* C24: when a batch is cancelled mid-run, every item that had not started
\* has a detail in the results and the results carry the summary.
C24_CancelledItemsRecorded ==
    \A k \in Positions :
        (bpc = "cancelled" /\ item[k].pc = "cancelled") =>
            /\ "success_rate" \in DOMAIN results
            /\ \E i \in 1..Len(results.details) : results.details[i].index = k

\* C25: in upload_products an item is started only when every item before it
\* has its final result appended to details, in input order, and at most
\* one item is inside upload_single_product, so at most one request is out.
C25_OneAtATime ==
    mode = "seq" =>
        /\ \A k \in Positions :
               item[k].pc # "queued" =>
                   /\ Len(results.details) >= k - 1
                   /\ \A j \in 1..(k - 1) :
                          /\ item[j].pc = "done"
                          /\ results.details[j].index = j
        /\ Cardinality({k \in Positions : item[k].pc \in {"uploading", "resolved"}}) <= 1

\* C25 witness: the second item is in upload_single_product after the first
\* one, which was retried, has been recorded.
C25_Witness ==
    /\ mode = "seq"
    /\ Len(products) >= 2
    /\ item[1].pc = "done"
    /\ item[1].retry_count >= 1
    /\ item[2].pc = "uploading"
    /\ Len(results.details) = 1

\* C26: under BatchFairness a call of upload_products_async that is not
\* cancelled returns its summary, and it returns only when every item has
\* resolved and left the semaphore.
C26_AsyncCompletes ==
    /\ (mode = "async" /\ bpc = "running") ~> (bpc \in {"returned", "cancelled"})
    /\ []((mode = "async" /\ bpc = "returned") =>
              /\ \A k \in Positions : item[k].pc = "done"
              /\ permits = Min(max_concurrency, Len(products)))

\* The same for the lists whose products all have the key 'title'.
C26_CompletesWithTitles ==
    /\ (mode = "async" /\ bpc = "running" /\ \A k \in Positions : HasTitleKey(products[k]))
           ~> (bpc \in {"returned", "cancelled"})
    /\ []((mode = "async" /\ bpc = "returned") =>
              /\ \A k \in Positions : item[k].pc = "done"
              /\ permits = Min(max_concurrency, Len(products)))

\* A queued item does not wait while a permit is free: it starts or the
\* call is left.
C26_WaitingItemStarts ==
    \A k \in Slots :
        (mode = "async" /\ permits > 0 /\ IF k \in Positions THEN item[k].pc = "queued" ELSE FALSE)
            ~> (IF k \in Positions THEN item[k].pc # "queued" ELSE TRUE)

(***************************************************************************)
(* Claims about _api_request (SpecRequest).                                *)
(***************************************************************************)

\* The resend and the returned value of the latest call of _api_request.
ResendOnce ==
    request.calls > 0 =>
        /\ request.first = "network_error" =>
               /\ request.sends = 2
               /\ request.waited = 1
               /\ request.second = "json_ok" => request.result.success
        /\ request.first # "network_error" =>
               /\ request.sends <= 1
               /\ request.waited = 0
        /\ request.result.success \in BOOLEAN

\* C27: a call of _api_request resends once, after one second, when the
\* first send met a network error, and returns success when the resend is
\* answered with errcode 0; it does not resend otherwise; it returns a value
\* with the key success; and it appends a record to the history for every
\* outcome it returns.
C27_RequestContract ==
    /\ ResendOnce
    /\ request.calls > 0 => request.recorded >= 1

\* C27 without the history: the resend and the returned value.
C27_ResendContract == ResendOnce /\ (request.calls > 0 => request.sends <= 2)

(***************************************************************************)
(* Claims about the backoff of upload_single_product (SpecUpload).         *)
(***************************************************************************)

====
